---------------------------- MODULE Spec2Model ----------------------------
(***************************************************************************)
(* A model of pymusic_theory: Note equality and hashing (theory.py), the   *)
(* TheoryMaster interval tables (theory.py), the Guitar and Piano position *)
(* maps (instruments.py) and the GuitarAnalyzer fingering optimizer        *)
(* (analysis.py).                                                          *)
(*                                                                         *)
(* Each part of the program has its own specification over the shared      *)
(* variables: SpecOpt (the optimizer), SpecNote (Note.__eq__/__hash__),    *)
(* SpecInstr (Guitar and Piano), SpecAnalyzer (GuitarAnalyzer's queries on *)
(* a guitar), SpecTheory (TheoryMaster) and SpecInvert (invert on a        *)
(* caller's list).                                                         *)
(***************************************************************************)
EXTENDS Integers, Sequences, FiniteSets, TLC

VARIABLES
    \* the optimizer (analysis.py)
    frets,            \* Guitar.frets of the instrument in use
    positions_list,   \* argument of compute_least_distance_combination
    least,            \* outcome of compute_least_distance_combination
    fingers,          \* outcome of consuming get_finger_combination
    \* Note (theory.py)
    hashseed,         \* the interpreter's string-hash salt (PYTHONHASHSEED)
    note_a,           \* left operand
    note_b,           \* right operand
    cmp,              \* outcome of a == b, a != b, hash(a), hash(b)
    \* Guitar and Piano (instruments.py)
    instrument,       \* the constructor's arguments, name = "" before it ran
    strings,          \* Guitar.strings: position -> Note
    keys,             \* Piano.keys: key number -> Note
    notes,            \* Instrument.notes: the dict Note -> position(s)
    play_arg,         \* argument of play
    play_out,         \* outcome of play
    \* TheoryMaster (theory.py)
    major_intervals,
    minor_intervals,
    dim_intervals,
    call,             \* the last call on the TheoryMaster and its outcome
    ncalls,           \* calls made so far
    \* TheoryMaster.invert on a caller's list
    intervals_arg,    \* argument intervals
    n_arg,            \* argument n
    invert_out,       \* outcome of invert(intervals_arg, n_arg)
    \* GuitarAnalyzer (analysis.py) on a constructed guitar
    coordinates,      \* the get_coordinates call and its outcome
    classes           \* the get_equivalence_classes call and its outcome

optVars    == <<positions_list, least, fingers>>
noteVars   == <<note_a, note_b, cmp>>
instrVars  == <<instrument, strings, keys, notes, play_arg, play_out>>
theoryVars == <<major_intervals, minor_intervals, dim_intervals, call, ncalls>>
invertVars == <<intervals_arg, n_arg, invert_out>>
analyzerVars == <<coordinates, classes>>

vars == <<frets, hashseed, optVars, noteVars, instrVars, theoryVars, invertVars, analyzerVars>>

(***************************************************************************)
(* Bounds of the model and constants of the program.                       *)
(***************************************************************************)
\* longest list of target notes handed to the optimizer
MaxNotes == 3
\* default fret count of GuitarAnalyzer.__init__
DefaultFrets == 24

\* sequences over S of length 0..n
RECURSIVE BSeq(_, _)
BSeq(S, n) ==
    IF n = 0 THEN {<<>>}
    ELSE LET shorter == BSeq(S, n - 1)
         IN  shorter \cup {Append(s, x) : s \in {t \in shorter : Len(t) = n - 1}, x \in S}

(***************************************************************************)
(* IEEE-754 doubles, as far as the optimizer uses them.  A finite double v *)
(* with v = 0 or 1 <= v < 64 is the integer v * 2^52 kept in two limbs,    *)
(* hi * 2^28 + lo; inf is float("inf").                                    *)
(***************************************************************************)
Limb == 2^28
\* hi limb of 1.0
OneHi == 2^24

FInf == [inf |-> TRUE, hi |-> 0, lo |-> 0]
FZero == [inf |-> FALSE, hi |-> 0, lo |-> 0]

\* x < y on doubles
FLess(x, y) ==
    /\ ~x.inf
    /\ \/ y.inf
       \/ x.hi < y.hi
       \/ x.hi = y.hi /\ x.lo < y.lo

\* x <= y on doubles
FLessEq(x, y) == ~FLess(y, x)

\* the spacing of doubles in the binade of hi * 2^28, in units of 2^-52
RECURSIVE Ulp(_)
Ulp(hi) == IF hi < 2 * OneHi THEN 1 ELSE 2 * Ulp(hi \div 2)

\* x + y, rounded to the nearest double, ties to even
FAdd(x, y) ==
    LET lo0  == x.lo + y.lo
        hi1  == x.hi + y.hi + (lo0 \div Limb)
        lo1  == lo0 % Limb
        q    == Ulp(hi1)
        r    == lo1 % q
        down == lo1 - r
        up   == \/ 2 * r > q
                \/ 2 * r = q /\ (down \div q) % 2 = 1
        lo2  == IF up THEN down + q ELSE down
    IN  [inf |-> FALSE, hi |-> hi1 + (lo2 \div Limb), lo |-> lo2 % Limb]

\* math.sqrt(k) for an integer k: the correctly rounded double
SqrtTable ==
    [k \in 0..32 |->
        CASE k = 0  -> <<0, 0>>
          [] k = 1  -> <<16777216, 0>>
          [] k = 2  -> <<23726566, 109001677>>
          [] k = 3  -> <<29058990, 140004522>>
          [] k = 4  -> <<33554432, 0>>
          [] k = 5  -> <<37514995, 120580432>>
          [] k = 6  -> <<41095618, 135414364>>
          [] k = 7  -> <<44388341, 61206996>>
          [] k = 8  -> <<47453132, 218003354>>
          [] k = 9  -> <<50331648, 0>>
          [] k = 10 -> <<53054215, 95729318>>
          [] k = 11 -> <<55643730, 133881448>>
          [] k = 12 -> <<58117981, 11573588>>
          [] k = 13 -> <<60491112, 146977766>>
          [] k = 14 -> <<62774594, 47218322>>
          [] k = 15 -> <<64977878, 43949492>>
          [] k = 16 -> <<67108864, 0>>
          [] k = 17 -> <<69174233, 180335644>>
          [] k = 18 -> <<71179699, 58569572>>
          [] k = 19 -> <<73130189, 26294244>>
          [] k = 20 -> <<75029990, 241160864>>
          [] k = 21 -> <<76882862, 72645140>>
          [] k = 22 -> <<78692118, 89217692>>
          [] k = 23 -> <<80460701, 98308184>>
          [] k = 24 -> <<82191237, 2393272>>
          [] k = 25 -> <<83886080, 0>>
          [] k = 26 -> <<85547351, 206094296>>
          [] k = 27 -> <<87176971, 151578112>>
          [] k = 28 -> <<88776682, 122413992>>
          [] k = 29 -> <<90348073, 44263372>>
          [] k = 30 -> <<91892596, 148543036>>
          [] k = 31 -> <<93411585, 94570252>>
          [] k = 32 -> <<94906265, 167571252>>]

FSqrt(k) == [inf |-> FALSE, hi |-> SqrtTable[k][1], lo |-> SqrtTable[k][2]]

(***************************************************************************)
(* GuitarAnalyzer (analysis.py)                                            *)
(***************************************************************************)
\* get_coordinates with string and fret exchanged
get_coordinates_fret_first(position) == <<position % frets, position \div frets>>

\* get_coordinates: (string, fret) of a position
get_coordinates(position) == <<position \div frets, position % frets>>

\* euclidean_distance of two integer points
euclidean_distance(point1, point2) ==
    FSqrt((point2[1] - point1[1]) * (point2[1] - point1[1])
          + (point2[2] - point1[2]) * (point2[2] - point1[2]))

\* compute_distance of two positions
compute_distance(position_1, position_2) ==
    euclidean_distance(<<(position_1 \div frets) + 1, position_1 % frets>>,
                       <<(position_2 \div frets) + 1, position_2 % frets>>)

\* itertools.product(*lists) as a list: the rightmost list advances fastest
RECURSIVE product(_)
product(lists) ==
    IF lists = <<>> THEN << <<>> >>
    ELSE LET rest == product(Tail(lists))
             first == Head(lists)
             row(x) == [j \in 1..Len(rest) |-> <<x>> \o rest[j]]
             RECURSIVE rows(_)
             rows(i) == IF i > Len(first) THEN <<>> ELSE row(first[i]) \o rows(i + 1)
         IN  rows(1)

\* sum([compute_distance(c[i], c[i+1]) for i in range(len(c) - 1)]),
\* added left to right from 0, each addition rounded to a double (the
\* builtin sum of CPython up to 3.11; later versions compensate the
\* rounding error of float sums)
RECURSIVE sum_from(_, _, _)
sum_from(acc, combination, i) ==
    IF i >= Len(combination) THEN acc
    ELSE sum_from(FAdd(acc, compute_distance(combination[i], combination[i + 1])),
                  combination, i + 1)

total_distance(combination) == sum_from(FZero, combination, 1)

\* the test of the selection loop with <= for <
improves_or_ties(total, least_distance) == FLessEq(total, least_distance)

\* "if total_distance < least_distance"
improves(total, least_distance) == FLess(total, least_distance)

\* the loop over combinations, from index i on, carrying
\* (least_distance, least_distance_combination)
RECURSIVE select_from(_, _, _)
select_from(combinations, i, best) ==
    IF i > Len(combinations) THEN best
    ELSE LET total == total_distance(combinations[i])
         IN  select_from(combinations, i + 1,
                 IF improves(total, best.least_distance)
                 THEN [least_distance |-> total, none |-> FALSE,
                       combination |-> combinations[i]]
                 ELSE best)

\* compute_least_distance_combination: none stands for Python's None
compute_least_distance_combination(lists) ==
    LET best == select_from(product(lists), 1,
                    [least_distance |-> FInf, none |-> TRUE, combination |-> <<>>])
    IN  [none |-> best.none, combination |-> best.combination]

\* list(get_finger_combination(lists)): iterating None raises TypeError
get_finger_combination(lists) ==
    LET ldc == compute_least_distance_combination(lists)
    IN  IF ldc.none
        THEN [raised |-> "TypeError", coords |-> <<>>]
        ELSE [raised |-> "",
              coords |-> [i \in 1..Len(ldc.combination) |->
                             get_coordinates(ldc.combination[i])]]

(***************************************************************************)
(* The optimizer's specification: the argument is drawn at the start, the  *)
(* two entry points are then called on it.                                 *)
(***************************************************************************)
\* positions of the default guitar the candidate lists are built from:
\* (string, fret) = (0,0), (2,2), (3,3)
OptPositions == {0, 50, 75}

\* candidate lists of one note: none, one position, or two distinct positions
\* in either order
CandidateLists ==
    {<<>>} \cup {<<p>> : p \in OptPositions}
           \cup {<<pq[1], pq[2]>> :
                    pq \in {x \in OptPositions \X OptPositions : x[1] # x[2]}}

NotCalled == [called |-> FALSE, raised |-> "", none |-> FALSE, value |-> <<>>]

\* the values of the variables of the parts a specification leaves alone
IdleOpt ==
    /\ positions_list = <<>>
    /\ least = NotCalled
    /\ fingers = NotCalled
IdleNote ==
    /\ note_a = [name |-> "", pitch |-> 0]
    /\ note_b = [name |-> "", pitch |-> 0]
    /\ cmp = [called |-> FALSE]
IdleInstr ==
    /\ instrument = [name |-> ""]
    /\ strings = <<>>
    /\ keys = <<>>
    /\ notes = <<>>
    /\ play_arg = <<>>
    /\ play_out = [called |-> FALSE, value |-> <<>>]
IdleTheory ==
    /\ major_intervals = <<>>
    /\ minor_intervals = <<>>
    /\ dim_intervals = <<>>
    /\ call = [op |-> "", name |-> "", list |-> <<>>, n |-> 0, raised |-> "",
               result |-> <<>>]
    /\ ncalls = 0
IdleInvert ==
    /\ intervals_arg = <<>>
    /\ n_arg = 0
    /\ invert_out = [called |-> FALSE]
NoCoordinates == [called |-> FALSE, position |-> 0, value |-> <<>>]
NoClasses == [called |-> FALSE, notes |-> <<>>, value |-> <<>>]
IdleAnalyzer ==
    /\ coordinates = NoCoordinates
    /\ classes = NoClasses

InitOpt ==
    /\ frets = DefaultFrets
    /\ hashseed = 0
    /\ positions_list \in BSeq(CandidateLists, MaxNotes)
    /\ least = NotCalled
    /\ fingers = NotCalled
    /\ IdleNote /\ IdleInstr /\ IdleTheory /\ IdleInvert /\ IdleAnalyzer

CallComputeLeastDistanceCombination ==
    /\ ~least.called
    /\ LET r == compute_least_distance_combination(positions_list)
       IN  least' = [called |-> TRUE, raised |-> "", none |-> r.none,
                     value |-> r.combination]
    /\ UNCHANGED <<frets, hashseed, positions_list, fingers,
                   noteVars, instrVars, theoryVars, invertVars, analyzerVars>>

CallGetFingerCombination ==
    /\ ~fingers.called
    /\ LET r == get_finger_combination(positions_list)
       IN  fingers' = [called |-> TRUE, raised |-> r.raised, none |-> FALSE,
                       value |-> r.coords]
    /\ UNCHANGED <<frets, hashseed, positions_list, least,
                   noteVars, instrVars, theoryVars, invertVars, analyzerVars>>

NextOpt == CallComputeLeastDistanceCombination \/ CallGetFingerCombination

SpecOpt == InitOpt /\ [][NextOpt]_vars

(***************************************************************************)
(* Exact (real-number) comparison of total distances.  sqrt(k) = m*sqrt(s) *)
(* with s squarefree, and square roots of distinct squarefree integers are *)
(* linearly independent over the rationals: two sums of square roots are   *)
(* equal exactly when their coefficients agree for every s.                *)
(***************************************************************************)
SquareRootOfSquarePart(k) ==
    CHOOSE m \in 1..6 : /\ k % (m * m) = 0
                        /\ \A n \in (m + 1)..6 : k % (n * n) # 0

SquaredDistance(position_1, position_2) ==
    LET dx == (position_2 \div frets) - (position_1 \div frets)
        dy == (position_2 % frets) - (position_1 % frets)
    IN  dx * dx + dy * dy

RECURSIVE CoefficientFrom(_, _, _)
CoefficientFrom(combination, s, i) ==
    IF i >= Len(combination) THEN 0
    ELSE LET k == SquaredDistance(combination[i], combination[i + 1])
             m == IF k = 0 THEN 0 ELSE SquareRootOfSquarePart(k)
         IN  (IF k # 0 /\ k = m * m * s THEN m ELSE 0)
             + CoefficientFrom(combination, s, i + 1)

\* the two combinations have the same total Euclidean distance
RealTie(c1, c2) ==
    \A s \in 1..32 : CoefficientFrom(c1, s, 1) = CoefficientFrom(c2, s, 1)

\* c1's total Euclidean distance is smaller than c2's: the computed totals
\* of two combinations that do not tie differ by far more than their
\* rounding error (FloatOrderIsRealOrder)
RealLess(c1, c2) ==
    ~RealTie(c1, c2) /\ FLess(total_distance(c1), total_distance(c2))

\* computed totals either belong to a real tie or differ by at least 2^-40,
\* while a sum of up to four rounded square roots below 64 is within 2^-44
\* of the real sum
FloatOrderIsRealOrder ==
    LET combos == product(positions_list)
        far(x, y) == \/ x.hi # y.hi
                     \/ x.lo - y.lo >= 4096
                     \/ y.lo - x.lo >= 4096
    IN  \A i, j \in 1..Len(combos) :
            \/ RealTie(combos[i], combos[j])
            \/ far(total_distance(combos[i]), total_distance(combos[j]))

AllNonEmpty == \A i \in 1..Len(positions_list) : positions_list[i] # <<>>
SomeEmpty == \E i \in 1..Len(positions_list) : positions_list[i] = <<>>

\* the returned combination takes its i-th position from the i-th list
OnePerList(c) ==
    /\ Len(c) = Len(positions_list)
    /\ \A i \in 1..Len(c) :
          \E j \in 1..Len(positions_list[i]) : c[i] = positions_list[i][j]

(* C1, as amended: for candidate lists that are all non-empty,
   compute_least_distance_combination returns one position per list, the
   i-th from the i-th list, whose total distance as the code computes it
   (double-precision square roots added left to right) is minimal over the
   cross-product, and no combination enumerated earlier has a computed total
   as small. *)
C1_LeastComputedTotalFirst ==
    (least.called /\ AllNonEmpty) =>
        LET combos == product(positions_list)
        IN  /\ ~least.none
            /\ OnePerList(least.value)
            /\ \E k \in 1..Len(combos) :
                  /\ combos[k] = least.value
                  /\ \A j \in 1..Len(combos) :
                        FLessEq(total_distance(combos[k]), total_distance(combos[j]))
                  /\ \A j \in 1..(k - 1) :
                        FLess(total_distance(combos[k]), total_distance(combos[j]))

\* C1's case: two combinations tie for the least computed total and the
\* first of them is returned
C1_Witness ==
    /\ least.called /\ AllNonEmpty /\ ~least.none
    /\ Len(positions_list) >= 2
    /\ LET combos == product(positions_list)
       IN  \E k, j \in 1..Len(combos) :
              /\ k < j
              /\ combos[k] = least.value
              /\ combos[j] # combos[k]
              /\ total_distance(combos[j]) = total_distance(combos[k])

(* C1, as stated: the returned combination has the least total Euclidean
   distance of the cross-product, and among the combinations sharing that
   least distance it is the one enumerated first. *)
C1_LeastEuclideanTotalFirst ==
    (least.called /\ AllNonEmpty) =>
        LET combos == product(positions_list)
        IN  /\ ~least.none
            /\ OnePerList(least.value)
            /\ \E k \in 1..Len(combos) :
                  /\ combos[k] = least.value
                  /\ \A j \in 1..Len(combos) : ~RealLess(combos[j], combos[k])
                  /\ \A j \in 1..(k - 1) : RealLess(combos[k], combos[j])

(* C2: when some target note has no candidate position, the optimizer
   reports an absent result and does not crash: the least-distance
   combination is None and consuming get_finger_combination raises
   nothing. *)
C2_EmptyCandidatesReportedNotRaised ==
    /\ (least.called /\ SomeEmpty) => (least.none /\ least.raised = "")
    /\ (fingers.called /\ SomeEmpty) => fingers.raised = ""

(***************************************************************************)
(* Note (theory.py).  A pitch is kept as its integer number of 1/10000 Hz. *)
(***************************************************************************)
PerHz == 10^4

\* int(round(pitch, 0)): to the nearest whole Hz, an exact half to the even
\* neighbour (a pitch written with an exact half is an exact double)
RoundHz(pitch) ==
    LET q == pitch \div PerHz
        r == pitch % PerHz
    IN  IF 2 * r < PerHz THEN q
        ELSE IF 2 * r > PerHz THEN q + 1
        ELSE IF q % 2 = 0 THEN q ELSE q + 1

\* largest salt of the string hash in the model
MaxSeed == 1

\* the names the model hashes: the chromatic table and one name outside it
HashedNames == <<"C", "C#", "D", "Eb", "E", "F", "F#", "G", "G#", "A", "Bb", "B", "X">>

\* hash(name) of a str: a 64-bit value that depends on the interpreter's salt;
\* different names are taken to have different hashes
StrHash(name) ==
    LET code == CHOOSE i \in 1..Len(HashedNames) : HashedNames[i] = name
    IN  code * (hashseed + 1) + hashseed

\* Note.__eq__ comparing the names as well
Note_eq_with_name(self, other) ==
    self.name = other.name /\ RoundHz(self.pitch) = RoundHz(other.pitch)

\* Note.__eq__
Note_eq(self, other) == RoundHz(self.pitch) = RoundHz(other.pitch)

\* Note.__ne__
Note_ne(self, other) == ~Note_eq(self, other)

\* Note.__hash__: the hash of the tuple (name, rounded pitch), determined by
\* the hashes of its two members
Note_hash(self) == <<StrHash(self.name), RoundHz(self.pitch)>>

NoteNames == {"A", "Bb", "X"}
\* 109.49 109.50 109.51 110.00 110.49 110.50 110.51 111.50
NotePitches == {1094900, 1095000, 1095100, 1100000, 1104900, 1105000, 1105100,
                1115000}
NoteInputs == [name : NoteNames, pitch : NotePitches]

InitNote ==
    /\ frets = DefaultFrets
    /\ hashseed \in 0..MaxSeed
    /\ note_a \in NoteInputs
    /\ note_b \in NoteInputs
    /\ cmp = [called |-> FALSE]
    /\ IdleOpt /\ IdleInstr /\ IdleTheory /\ IdleInvert /\ IdleAnalyzer

\* a == b, a != b, hash(a) and hash(b) on the two notes
CompareNotes ==
    /\ ~cmp.called
    /\ cmp' = [called |-> TRUE,
               eq |-> Note_eq(note_a, note_b),
               ne |-> Note_ne(note_a, note_b),
               hash_a |-> Note_hash(note_a),
               hash_b |-> Note_hash(note_b)]
    /\ UNCHANGED <<frets, hashseed, note_a, note_b,
                   optVars, instrVars, theoryVars, invertVars, analyzerVars>>

NextNote == CompareNotes

SpecNote == InitNote /\ [][NextNote]_vars

\* whole Hz n is the nearest to the pitch, an exact half going to the even one
NearestHz(pitch, n) ==
    LET d == IF pitch >= n * PerHz THEN pitch - n * PerHz ELSE n * PerHz - pitch
    IN  2 * d < PerHz \/ (2 * d = PerHz /\ n % 2 = 0)

RoundToSameHz(p1, p2) ==
    \E n \in 0..((p1 + p2) \div PerHz + 1) : NearestHz(p1, n) /\ NearestHz(p2, n)

(* C3: a == b holds exactly when the two pitches round to the same whole
   number of Hz, whatever the names are, and a != b is its negation. *)
C3_EqIffSameRoundedPitch ==
    cmp.called =>
        /\ cmp.eq <=> RoundToSameHz(note_a.pitch, note_b.pitch)
        /\ cmp.ne <=> ~cmp.eq

\* C3's case: two notes of different names and different pitches are equal
C3_Witness ==
    /\ cmp.called /\ cmp.eq /\ ~cmp.ne
    /\ note_a.name # note_b.name
    /\ note_a.pitch # note_b.pitch

(* C4: two Notes that are equal, whatever their names, have the same hash
   value. *)
C4_EqualNotesHashEqual ==
    (cmp.called /\ cmp.eq) => cmp.hash_a = cmp.hash_b

(***************************************************************************)
(* TheoryMaster.get_pitch and the chromatic table (theory.py)              *)
(***************************************************************************)
\* TheoryMaster.notes
TheoryNotes == <<"C", "C#", "D", "Eb", "E", "F", "F#", "G", "G#", "A", "Bb", "B">>

\* theory.notes.index(name)
notes_index(name) == (CHOOSE i \in 1..Len(TheoryNotes) : TheoryNotes[i] = name) - 1

\* (2 ** (1 / 12)) ** k for k = 0..11, in millionths
SemitoneFactor ==
    <<1000000, 1059463, 1122462, 1189207, 1259921, 1334840,
      1414214, 1498307, 1587401, 1681793, 1781797, 1887749>>

\* get_pitch: ((2 ** (1 / 12)) ** interval) * pitch for interval >= 0, to the
\* nearest 1/10000 Hz; the product is formed in parts of three digits
get_pitch(pitch, interval) ==
    LET f  == (2 ^ (interval \div 12)) * SemitoneFactor[(interval % 12) + 1]
        ph == pitch \div 1000
        pl == pitch % 1000
        fh == f \div 1000
        fl == f % 1000
        m  == ph * fl + pl * fh
    IN  ph * fh + (m \div 1000) + (((m % 1000) * 1000 + pl * fl + 500000) \div 1000000)

(***************************************************************************)
(* Instrument.notes, a dict keyed by Note: a list of entries in insertion  *)
(* order.  A lookup finds the entry whose key has the hash of the note     *)
(* looked up and is equal to it.                                           *)
(***************************************************************************)
\* the index of the entry a lookup of note finds, 0 when there is none
dict_find(d, note) ==
    IF \E i \in 1..Len(d) : Note_hash(d[i].key) = Note_hash(note) /\ Note_eq(d[i].key, note)
    THEN CHOOSE i \in 1..Len(d) :
            Note_hash(d[i].key) = Note_hash(note) /\ Note_eq(d[i].key, note)
    ELSE 0

\* d.get(note): <<>> for None, <<value>> for a value
dict_get(d, note) ==
    IF dict_find(d, note) = 0 THEN <<>> ELSE <<d[dict_find(d, note)].value>>

\* d[note] = value
dict_set(d, note, value) ==
    IF dict_find(d, note) = 0
    THEN Append(d, [key |-> note, value |-> value])
    ELSE [d EXCEPT ![dict_find(d, note)].value = value]

(***************************************************************************)
(* Guitar (instruments.py)                                                 *)
(***************************************************************************)
\* the position formula counting strings from 1
position_from_one(string, fret, nfrets) == ((string + 1) * nfrets) + fret

\* position = (string * self.frets) + fret
position_of(string, fret, nfrets) == (string * nfrets) + fret

\* the body of the loops of Guitar._initiate for one string and fret
guitar_place(g, string, fret, nfrets, open_string_note) ==
    LET position == position_of(string, fret, nfrets)
        note == [name  |-> TheoryNotes[((notes_index(open_string_note.name) + fret) % 12) + 1],
                 pitch |-> get_pitch(open_string_note.pitch, fret)]
        found == dict_find(g.notes, note)
    IN  [strings |-> [p \in DOMAIN g.strings \cup {position} |->
                         IF p = position THEN note ELSE g.strings[p]],
         notes   |-> IF found = 0
                     THEN Append(g.notes, [key |-> note, value |-> <<position>>])
                     ELSE [g.notes EXCEPT ![found].value = Append(@, position)]]

\* the inner loop of Guitar._initiate: the frets of one string, from fret on
\* (each step's maps are evaluated before the loop goes on)
RECURSIVE guitar_string_from(_, _, _, _, _)
guitar_string_from(g, string, fret, nfrets, open_string_note) ==
    IF fret >= nfrets THEN g
    ELSE LET placed == guitar_place(g, string, fret, nfrets, open_string_note)
         IN  IF Len(placed.notes) > 0
             THEN guitar_string_from(placed, string, fret + 1, nfrets, open_string_note)
             ELSE placed

\* the outer loop of Guitar._initiate: the strings of the tuning, from string
\* on; tuning[string + 1] is the string's open note
RECURSIVE guitar_initiate_from(_, _, _, _)
guitar_initiate_from(g, string, nfrets, tuning) ==
    IF string >= Len(tuning) THEN g
    ELSE LET strung == guitar_string_from(g, string, 0, nfrets, tuning[string + 1])
         IN  IF Len(strung.notes) >= 0
             THEN guitar_initiate_from(strung, string + 1, nfrets, tuning)
             ELSE strung

\* Guitar.__init__: the maps start empty and _initiate fills them
Guitar_init(nfrets, tuning) ==
    guitar_initiate_from([strings |-> <<>>, notes |-> <<>>], 0, nfrets, tuning)

\* Guitar.play and Piano.play: [self.notes.get(note) for note in notes]
play(d, notes_arg) == [i \in 1..Len(notes_arg) |-> dict_get(d, notes_arg[i])]

(***************************************************************************)
(* Piano (instruments.py)                                                  *)
(***************************************************************************)
\* Piano._initiate from key i on; note is the previous key's note
RECURSIVE piano_initiate_from(_, _, _, _, _)
piano_initiate_from(pn, i, note, num_keys, low_note) ==
    IF i >= num_keys THEN pn
    ELSE LET note_name == TheoryNotes[((notes_index(low_note.name) + i) % 12) + 1]
             this == IF i # 0
                     THEN [name |-> note_name, pitch |-> get_pitch(note.pitch, 1)]
                     ELSE note
         IN  piano_initiate_from(
                 [keys  |-> [k \in DOMAIN pn.keys \cup {i} |->
                                IF k = i THEN this ELSE pn.keys[k]],
                  notes |-> dict_set(pn.notes, this, i)],
                 i + 1, this, num_keys, low_note)

\* Piano.__init__
Piano_init(num_keys, low_note) ==
    piano_initiate_from([keys |-> <<>>, notes |-> <<>>], 0, low_note, num_keys, low_note)

(***************************************************************************)
(* The instruments' specification: an instrument is constructed, then play *)
(* is called on it (play changes nothing, one call shows all it does).     *)
(***************************************************************************)
\* most strings of a constructed guitar
MaxStrings == 2
\* most frets per string of a constructed guitar
MaxFrets == 3
\* most keys of a constructed piano
MaxKeys == 3
\* longest list of notes played
MaxPlayed == 2
\* default string count of Guitar.__init__
DefaultStrings == 6

\* E 82.41, F 87.31, C 5.00
TuningNotes ==
    {[name |-> "E", pitch |-> 824100], [name |-> "F", pitch |-> 873100],
     [name |-> "C", pitch |-> 50000]}

\* the default tuning of Guitar.__init__
StandardTuning ==
    <<[name |-> "E", pitch |-> 824100], [name |-> "A", pitch |-> 1100000],
      [name |-> "D", pitch |-> 1468300], [name |-> "G", pitch |-> 1960000],
      [name |-> "B", pitch |-> 2469400], [name |-> "E", pitch |-> 3296300]>>

\* the default low note of Piano.__init__, A 27.5, and C 5.00
LowNotes == {[name |-> "A", pitch |-> 275000], [name |-> "C", pitch |-> 50000]}

\* notes played: E 82.41, E 82.00, A 82.41, C# 5.00, A 27.5, A 440.00
PlayedNotes ==
    {[name |-> "E", pitch |-> 824100], [name |-> "E", pitch |-> 820000],
     [name |-> "A", pitch |-> 824100], [name |-> "C#", pitch |-> 50000],
     [name |-> "A", pitch |-> 275000], [name |-> "A", pitch |-> 4400000]}

InitInstr ==
    /\ frets = DefaultFrets
    /\ hashseed \in 0..MaxSeed
    /\ IdleInstr
    /\ IdleOpt /\ IdleNote /\ IdleTheory /\ IdleInvert /\ IdleAnalyzer

\* Guitar(nstrings, nfrets, tuning) with a tuning of nstrings notes
NewGuitar ==
    /\ instrument.name = ""
    /\ \E nstrings \in 0..MaxStrings, nfrets \in 1..MaxFrets :
         \E tuning \in {t \in BSeq(TuningNotes, MaxStrings) : Len(t) = nstrings} :
            LET g == Guitar_init(nfrets, tuning)
            IN  /\ instrument' = [name |-> "guitar", nstrings |-> nstrings,
                                  tuning |-> tuning]
                /\ frets' = nfrets
                /\ strings' = g.strings
                /\ notes' = g.notes
    /\ UNCHANGED <<hashseed, keys, play_arg, play_out,
                   optVars, noteVars, theoryVars, invertVars, analyzerVars>>

\* Guitar(): six strings, 24 frets, standard tuning
NewDefaultGuitar ==
    /\ instrument.name = ""
    /\ LET g == Guitar_init(DefaultFrets, StandardTuning)
       IN  /\ instrument' = [name |-> "guitar", nstrings |-> DefaultStrings,
                             tuning |-> StandardTuning]
           /\ frets' = DefaultFrets
           /\ strings' = g.strings
           /\ notes' = g.notes
    /\ UNCHANGED <<hashseed, keys, play_arg, play_out,
                   optVars, noteVars, theoryVars, invertVars, analyzerVars>>

\* Piano(num_keys, low_note)
NewPiano ==
    /\ instrument.name = ""
    /\ \E num_keys \in 0..MaxKeys, low_note \in LowNotes :
            LET pn == Piano_init(num_keys, low_note)
            IN  /\ instrument' = [name |-> "piano", num_keys |-> num_keys,
                                  low_note |-> low_note]
                /\ keys' = pn.keys
                /\ notes' = pn.notes
    /\ UNCHANGED <<frets, hashseed, strings, play_arg, play_out,
                   optVars, noteVars, theoryVars, invertVars, analyzerVars>>

\* play(notes) on the constructed instrument
Play ==
    /\ instrument.name # ""
    /\ ~play_out.called
    /\ \E notes_arg \in BSeq(PlayedNotes, MaxPlayed) :
         /\ play_arg' = notes_arg
         /\ play_out' = [called |-> TRUE, value |-> play(notes, notes_arg)]
    /\ UNCHANGED <<frets, hashseed, instrument, strings, keys, notes,
                   optVars, noteVars, theoryVars, invertVars, analyzerVars>>

NextInstr == NewGuitar \/ NewDefaultGuitar \/ NewPiano \/ Play

SpecInstr == InitInstr /\ [][NextInstr]_vars

\* the stored position lists that hold position p
ListsHolding(p) ==
    {i \in 1..Len(notes) : \E j \in 1..Len(notes[i].value) : notes[i].value[j] = p}

\* the notes at the two positions have the same rounded pitch
FrequencyEqual(p, q) == RoundHz(strings[p].pitch) = RoundHz(strings[q].pitch)

(* C5: after a Guitar is constructed, the Note-to-positions map is the exact
   inverse of the position-to-Note map under Note equality: every position
   is in exactly one stored list, once, under a key equal to its note, and
   two positions are in the same list exactly when their notes round to the
   same pitch. *)
C5_NotesInverseOfStrings ==
    instrument.name = "guitar" =>
        /\ \A i \in 1..Len(notes) : \A j \in 1..Len(notes[i].value) :
              notes[i].value[j] \in DOMAIN strings
        /\ \A p \in DOMAIN strings :
              /\ Cardinality(ListsHolding(p)) = 1
              /\ \A i \in ListsHolding(p) :
                    /\ Cardinality({j \in 1..Len(notes[i].value) : notes[i].value[j] = p}) = 1
                    /\ RoundHz(notes[i].key.pitch) = RoundHz(strings[p].pitch)
        /\ \A p, q \in DOMAIN strings :
              (ListsHolding(p) = ListsHolding(q)) <=> FrequencyEqual(p, q)

\* the positions whose stored note equals the note, in ascending order
RECURSIVE PositionsEqualFrom(_, _, _)
PositionsEqualFrom(map, note, p) ==
    IF p \notin DOMAIN map THEN <<>>
    ELSE (IF RoundHz(map[p].pitch) = RoundHz(note.pitch) THEN <<p>> ELSE <<>>)
         \o PositionsEqualFrom(map, note, p + 1)

(* C6: play returns one entry per input note, in input order, and raises
   nothing; an entry is None exactly when no stored note equals the input
   note by rounded pitch, whatever its name, and otherwise it is the
   position(s) of the stored notes equal to it: for a Guitar the list of
   those positions, for a Piano the key of such a note. *)
C6_PlayFindsEqualNotes ==
    play_out.called =>
        /\ Len(play_out.value) = Len(play_arg)
        /\ \A i \in 1..Len(play_arg) :
              LET map == IF instrument.name = "guitar" THEN strings ELSE keys
                  equal == PositionsEqualFrom(map, play_arg[i], 0)
              IN  /\ play_out.value[i] = <<>> <=> equal = <<>>
                  /\ play_out.value[i] # <<>> =>
                        IF instrument.name = "guitar"
                        THEN play_out.value[i][1] = equal
                        ELSE \E j \in 1..Len(equal) : play_out.value[i][1] = equal[j]

(* C7: a Guitar constructed with nstrings strings, frets frets per string
   and a tuning of nstrings notes has exactly the positions
   0 .. nstrings*frets - 1 (144 of them for 6 strings and 24 frets), and for
   every string s position s*frets holds the s-th tuning note, name and
   pitch. *)
C7_DensePositionsOpenStrings ==
    instrument.name = "guitar" =>
        /\ DOMAIN strings = 0..(instrument.nstrings * frets - 1)
        /\ (instrument.nstrings = DefaultStrings /\ frets = DefaultFrets)
              => Cardinality(DOMAIN strings) = 144
        /\ \A s \in 0..(instrument.nstrings - 1) :
              strings[s * frets] = instrument.tuning[s + 1]

\* C7's case: a guitar of several strings and frets with differently tuned
\* strings, and the default guitar
C7_Witness ==
    /\ instrument.name = "guitar"
    /\ instrument.nstrings = DefaultStrings /\ frets = DefaultFrets
    /\ strings[DefaultFrets] = StandardTuning[2]
    /\ Cardinality(DOMAIN strings) = 144

(***************************************************************************)
(* GuitarAnalyzer (analysis.py): the analyzer is a Guitar and its           *)
(* constructor is Guitar's (NewGuitar, NewDefaultGuitar);                  *)
(* get_coordinates and get_equivalence_classes read the frets, strings and *)
(* notes of the constructed guitar and change nothing, so one call on the  *)
(* guitar shows all that the calls do.                                     *)
(***************************************************************************)
\* get_coordinates(position) for a position of the guitar
CallGetCoordinates ==
    /\ instrument.name = "guitar"
    /\ ~coordinates.called /\ ~classes.called
    /\ \E position \in DOMAIN strings :
         coordinates' = [called |-> TRUE, position |-> position,
                         value |-> get_coordinates(position)]
    /\ UNCHANGED <<frets, hashseed, classes,
                   optVars, noteVars, instrVars, theoryVars, invertVars>>

\* the lists of self.notes under the keys named as the note, in the dict's
\* order: [self.notes[_note] for _note in self.notes if _note.name == note.name]
RECURSIVE lists_of_name_from(_, _, _)
lists_of_name_from(d, note, k) ==
    IF k > Len(d) THEN <<>>
    ELSE (IF d[k].key.name = note.name THEN dict_get(d, d[k].key) ELSE <<>>)
         \o lists_of_name_from(d, note, k + 1)

\* the first loop of get_equivalence_classes: positions, a list of lists
RECURSIVE collect_from(_, _, _)
collect_from(d, notes_arg, i) ==
    IF i > Len(notes_arg) THEN <<>>
    ELSE lists_of_name_from(d, notes_arg[i], 1) \o collect_from(d, notes_arg, i + 1)

\* the second loop of get_equivalence_classes: what the generator yields for
\* the lists from the c-th on, yield self.strings[position]
RECURSIVE yield_from(_, _, _)
yield_from(map, positions, c) ==
    IF c > Len(positions) THEN <<>>
    ELSE [j \in 1..Len(positions[c]) |->
             [yields |-> "Note", item |-> map[positions[c][j]]]]
         \o yield_from(map, positions, c + 1)

\* get_equivalence_classes(notes), consumed to its end: the sequence of the
\* values yielded, each with its Python type
get_equivalence_classes(d, map, notes_arg) ==
    yield_from(map, collect_from(d, notes_arg, 1), 1)

\* target notes: E 82.41, E 440.00 (no guitar here stores that pitch), and
\* C# 5.00
TargetNotes ==
    {[name |-> "E", pitch |-> 824100], [name |-> "E", pitch |-> 4400000],
     [name |-> "C#", pitch |-> 50000]}

\* list(get_equivalence_classes(notes)) on the constructed guitar
CallGetEquivalenceClasses ==
    /\ instrument.name = "guitar"
    /\ ~coordinates.called /\ ~classes.called
    /\ \E notes_arg \in BSeq(TargetNotes, MaxPlayed) :
         classes' = [called |-> TRUE, notes |-> notes_arg,
                     value |-> get_equivalence_classes(notes, strings, notes_arg)]
    /\ UNCHANGED <<frets, hashseed, coordinates,
                   optVars, noteVars, instrVars, theoryVars, invertVars>>

NextAnalyzer ==
    NewGuitar \/ NewDefaultGuitar \/ CallGetCoordinates \/ CallGetEquivalenceClasses

SpecAnalyzer == InitInstr /\ [][NextAnalyzer]_vars

(* C11: get_coordinates inverts the position formula of the guitar: for
   every string s in [0, nstrings) and fret f in [0, frets),
   get_coordinates(s*frets + f) is (s, f), so the call made on a position of
   the guitar returns the one string and fret that the position was built
   from; get_coordinates(26) with 24 frets is (1, 2). *)
C11_CoordinatesInvertPosition ==
    instrument.name = "guitar" =>
    /\ \A s \in 0..(instrument.nstrings - 1), f \in 0..(frets - 1) :
          /\ get_coordinates(position_of(s, f, frets)) = <<s, f>>
          /\ (coordinates.called /\ coordinates.position = position_of(s, f, frets))
                => coordinates.value = <<s, f>>
    /\ coordinates.called =>
          \E s \in 0..(instrument.nstrings - 1), f \in 0..(frets - 1) :
              /\ coordinates.position = position_of(s, f, frets)
              /\ coordinates.value = <<s, f>>
    /\ (coordinates.called /\ coordinates.position = 26 /\ frets = DefaultFrets)
          => coordinates.value = <<1, 2>>

\* C11's case: position 26 of the default guitar, string 1 fret 2
C11_Witness ==
    /\ coordinates.called
    /\ frets = DefaultFrets
    /\ coordinates.position = 26
    /\ coordinates.value = <<1, 2>>

\* the positions of the guitar whose stored note has the note's name
PositionsOfName(note) == {p \in DOMAIN strings : strings[p].name = note.name}

\* the positions in the stored lists under the keys named as the note, in
\* the order get_equivalence_classes walks them
RECURSIVE Flatten(_)
Flatten(lists) == IF lists = <<>> THEN <<>> ELSE Head(lists) \o Flatten(Tail(lists))

\* what get_equivalence_classes does yield: one flat stream, and for every
\* target note in turn the Notes stored at the positions of that name, each
\* position once
EquivalenceClassesYieldStoredNotes ==
    classes.called =>
        LET walked == Flatten(collect_from(notes, classes.notes, 1))
        IN  /\ Len(classes.value) = Len(walked)
            /\ \A k \in 1..Len(walked) :
                  /\ classes.value[k].yields = "Note"
                  /\ classes.value[k].item = strings[walked[k]]
            /\ \A i \in 1..Len(classes.notes) :
                  LET own == Flatten(lists_of_name_from(notes, classes.notes[i], 1))
                  IN  /\ {own[j] : j \in 1..Len(own)} = PositionsOfName(classes.notes[i])
                      /\ Len(own) = Cardinality(PositionsOfName(classes.notes[i]))

(* C12: get_equivalence_classes yields, for each target note separately,
   the set of candidate positions: one entry per target note, and the entry
   of a target note holds exactly the positions of the guitar whose stored
   note has the target's name, whatever the target's pitch, and no position
   of another name. *)
C12_YieldsPositionsPerTarget ==
    classes.called =>
        /\ Len(classes.value) = Len(classes.notes)
        /\ \A i \in 1..Len(classes.notes) :
              /\ classes.value[i].yields = "positions"
              /\ {classes.value[i].item[j] : j \in 1..Len(classes.value[i].item)}
                    = PositionsOfName(classes.notes[i])

(***************************************************************************)
(* TheoryMaster (theory.py): the interval tables and the calls on them.    *)
(***************************************************************************)
\* TheoryMaster.modes
modes == <<"ionian", "dorian", "phrygian", "lydian", "mixolydian", "aeolian", "locrian">>

\* self.modes.index(mode)
modes_index(mode) == (CHOOSE i \in 1..Len(modes) : modes[i] = mode) - 1

\* the loop of invert that leaves the popped interval in its octave
invert_loop_same_octave(intervals, n) ==
    LET RECURSIVE go(_, _)
        go(l, k) == IF k <= 0 THEN l ELSE go(Append(Tail(l), Head(l)), k - 1)
    IN  go(intervals, n)

\* the loop of invert: n times, pop the first interval and append it
\* raised by 12
invert_loop(intervals, n) ==
    LET RECURSIVE go(_, _)
        go(l, k) == IF k <= 0 THEN l ELSE go(Append(Tail(l), Head(l) + 12), k - 1)
    IN  go(intervals, n)

\* invert(intervals, n): list is the argument list after the call, which is
\* also the list returned; popping from an empty list raises IndexError
invert(intervals, n) ==
    IF n > 0 /\ intervals = <<>>
    THEN [raised |-> "IndexError", list |-> <<>>]
    ELSE [raised |-> "", list |-> invert_loop(intervals, n)]

\* the list literal get_triad_intervals inverts, <<>> for a name it rejects
triad_literal(interval) ==
    CASE interval = "major"   -> <<0, 4, 7>>
      [] interval = "major_7" -> <<0, 4, 7, 11>>
      [] interval = "minor"   -> <<0, 3, 7>>
      [] interval = "minor_7" -> <<0, 3, 7, 10>>
      [] interval = "dom_7"   -> <<0, 4, 7, 10>>
      [] interval = "dim"     -> <<0, 3, 6>>
      [] OTHER                -> <<>>

\* get_triad_intervals with a major triad for the names it does not know
get_triad_intervals_lenient(interval, inversion) ==
    IF triad_literal(interval) = <<>>
    THEN [raised |-> "", list |-> invert(<<0, 4, 7>>, inversion).list]
    ELSE [raised |-> "", list |-> invert(triad_literal(interval), inversion).list]

\* get_triad_intervals(interval, inversion)
get_triad_intervals(interval, inversion) ==
    IF triad_literal(interval) = <<>>
    THEN [raised |-> "ValueError", list |-> <<>>]
    ELSE [raised |-> "", list |-> invert(triad_literal(interval), inversion).list]

\* get_mode_intervals(mode) on a TheoryMaster whose major_intervals is major:
\* list is the list returned, major is major_intervals after the call (the
\* same list object)
get_mode_intervals(major, mode) ==
    IF \A i \in 1..Len(modes) : modes[i] # mode
    THEN [raised |-> "ValueError", list |-> <<>>, major |-> major]
    ELSE [raised |-> "",
          list  |-> invert(major, modes_index(mode)).list,
          major |-> invert(major, modes_index(mode)).list]

\* most calls made on one TheoryMaster
MaxCalls == 3
\* largest inversion (n) requested
MaxInversion == 3

ModeInputs ==
    {"ionian", "dorian", "phrygian", "lydian", "mixolydian", "aeolian", "locrian",
     "major", "blues"}
QualityInputs ==
    {"major", "major_7", "minor", "minor_7", "dom_7", "dim",
     "dominant_7", "diminished", "sus4"}
\* the lists a caller hands to invert
CallerLists == {<<>>, <<0, 4, 7>>}

NoCall == [op |-> "", name |-> "", list |-> <<>>, n |-> 0, raised |-> "", result |-> <<>>]

\* TheoryMaster.__init__
InitTheory ==
    /\ major_intervals = <<2, 2, 1, 2, 2, 2, 1>>
    /\ minor_intervals = <<2, 1, 2, 2, 1, 2, 2>>
    /\ dim_intervals = <<2, 1, 2, 1, 2, 1, 2>>
    /\ call = NoCall
    /\ ncalls = 0
    /\ frets = DefaultFrets
    /\ hashseed = 0
    /\ IdleOpt /\ IdleNote /\ IdleInstr /\ IdleInvert /\ IdleAnalyzer

\* theory.get_mode_intervals(mode)
CallGetModeIntervals ==
    /\ ncalls < MaxCalls
    /\ \E mode \in ModeInputs :
         LET r == get_mode_intervals(major_intervals, mode)
         IN  /\ major_intervals' = r.major
             /\ call' = [op |-> "get_mode_intervals", name |-> mode, list |-> <<>>,
                         n |-> 0, raised |-> r.raised, result |-> r.list]
    /\ ncalls' = ncalls + 1
    /\ UNCHANGED <<frets, hashseed, minor_intervals, dim_intervals,
                   optVars, noteVars, instrVars, invertVars, analyzerVars>>

\* theory.get_triad_intervals(interval, inversion)
CallGetTriadIntervals ==
    /\ ncalls < MaxCalls
    /\ \E interval \in QualityInputs, inversion \in 0..MaxInversion :
         LET r == get_triad_intervals(interval, inversion)
         IN  call' = [op |-> "get_triad_intervals", name |-> interval, list |-> <<>>,
                     n |-> inversion, raised |-> r.raised, result |-> r.list]
    /\ ncalls' = ncalls + 1
    /\ UNCHANGED <<frets, hashseed, major_intervals, minor_intervals, dim_intervals,
                   optVars, noteVars, instrVars, invertVars, analyzerVars>>

\* theory.invert(l, n) on a list l of the caller's
CallInvertOnCallerList ==
    /\ ncalls < MaxCalls
    /\ \E l \in CallerLists, n \in 0..MaxInversion :
         LET r == invert(l, n)
         IN  call' = [op |-> "invert", name |-> "", list |-> l,
                     n |-> n, raised |-> r.raised, result |-> r.list]
    /\ ncalls' = ncalls + 1
    /\ UNCHANGED <<frets, hashseed, major_intervals, minor_intervals, dim_intervals,
                   optVars, noteVars, instrVars, invertVars, analyzerVars>>

\* theory.invert(l, n) on the list get_mode_intervals returned, which is the
\* object theory.major_intervals
CallInvertOnReturnedList ==
    /\ ncalls < MaxCalls
    /\ \E n \in 0..MaxInversion :
         LET r == invert(major_intervals, n)
         IN  /\ major_intervals' = r.list
             /\ call' = [op |-> "invert", name |-> "major_intervals",
                         list |-> major_intervals,
                         n |-> n, raised |-> r.raised, result |-> r.list]
    /\ ncalls' = ncalls + 1
    /\ UNCHANGED <<frets, hashseed, minor_intervals, dim_intervals,
                   optVars, noteVars, instrVars, invertVars, analyzerVars>>

NextTheory ==
    \/ CallGetModeIntervals
    \/ CallGetTriadIntervals
    \/ CallInvertOnCallerList
    \/ CallInvertOnReturnedList

SpecTheory == InitTheory /\ [][NextTheory]_vars

(***************************************************************************)
(* invert as a function of its arguments                                   *)
(***************************************************************************)
\* longest interval list inverted
MaxIntervals == 3

IntervalValues == {0, 4, 7}

InitInvert ==
    /\ intervals_arg \in BSeq(IntervalValues, MaxIntervals)
    /\ n_arg \in 0..MaxInversion
    /\ invert_out = [called |-> FALSE]
    /\ frets = DefaultFrets
    /\ hashseed = 0
    /\ IdleOpt /\ IdleNote /\ IdleInstr /\ IdleTheory /\ IdleAnalyzer

\* invert(intervals_arg, n_arg); intervals_arg keeps the list as it was
\* before the call
CallInvert ==
    /\ ~invert_out.called
    /\ LET r == invert(intervals_arg, n_arg)
       IN  invert_out' = [called |-> TRUE, raised |-> r.raised, result |-> r.list]
    /\ UNCHANGED <<frets, hashseed, intervals_arg, n_arg,
                   optVars, noteVars, instrVars, theoryVars, analyzerVars>>

NextInvert == CallInvert

SpecInvert == InitInvert /\ [][NextInvert]_vars

(* C8: the scale interval tables are constant: after any sequence of
   get_mode_intervals, get_triad_intervals and invert calls the tables hold
   their initial values, and a request for a mode returns the rotation of
   the initial major table, however many requests preceded it. *)
C8_IntervalTablesConstant ==
    /\ major_intervals = <<2, 2, 1, 2, 2, 2, 1>>
    /\ minor_intervals = <<2, 1, 2, 2, 1, 2, 2>>
    /\ dim_intervals = <<2, 1, 2, 1, 2, 1, 2>>
    /\ (call.op = "get_mode_intervals" /\ call.raised = "") =>
          LET k == modes_index(call.name)
              initial == <<2, 2, 1, 2, 2, 2, 1>>
          IN  call.result = SubSeq(initial, k + 1, 7)
                            \o [i \in 1..k |-> initial[i] + 12]

(* C9: for 0 <= n <= len(L), invert(L, n) returns L's elements from index n
   on, in order, followed by L's first n elements, in order, each raised by
   12; the result is as long as L. *)
C9_InvertRotatesAndRaises ==
    (invert_out.called /\ n_arg <= Len(intervals_arg)) =>
        /\ invert_out.raised = ""
        /\ Len(invert_out.result) = Len(intervals_arg)
        /\ invert_out.result =
              SubSeq(intervals_arg, n_arg + 1, Len(intervals_arg))
              \o [i \in 1..n_arg |-> intervals_arg[i] + 12]

\* C9's case: the first inversion of the major triad
C9_Witness ==
    /\ invert_out.called
    /\ intervals_arg = <<0, 4, 7>> /\ n_arg = 1
    /\ invert_out.result = <<4, 7, 12>>

SevenModes ==
    {"ionian", "dorian", "phrygian", "lydian", "mixolydian", "aeolian", "locrian"}

Tables == <<major_intervals, minor_intervals, dim_intervals>>

(* C10, as amended: get_mode_intervals(m) raises ValueError exactly when m
   is not one of the seven mode names, get_triad_intervals(q) raises
   ValueError exactly when q is not one of major, major_7, minor, minor_7,
   dom_7, dim, and a call that raises leaves every interval table
   unchanged. *)
C10_UnknownNamesRaise ==
    [][ncalls' = ncalls + 1 =>
        /\ call'.op = "get_mode_intervals" =>
              (call'.raised = "ValueError" <=> call'.name \notin SevenModes)
        /\ call'.op = "get_triad_intervals" =>
              (call'.raised = "ValueError" <=>
                 call'.name \notin {"major", "major_7", "minor", "minor_7", "dom_7", "dim"})
        /\ call'.raised # "" => Tables' = Tables]_vars

\* C10's case: a request for a chord quality outside the code's names is
\* refused after earlier requests changed nothing by raising
C10_Witness ==
    /\ call.op = "get_triad_intervals"
    /\ call.name = "dominant_7"
    /\ call.raised = "ValueError"
    /\ ncalls > 1

(* C10, as stated: get_mode_intervals(m) raises exactly when m is not one of
   the seven mode names, get_triad_intervals(q) raises exactly when q is not
   one of major, major_7, minor, minor_7, dominant_7, diminished, and a call
   that raises leaves every interval table unchanged. *)
C10_UnknownNamesRaiseAsStated ==
    [][ncalls' = ncalls + 1 =>
        /\ call'.op = "get_mode_intervals" =>
              (call'.raised = "ValueError" <=> call'.name \notin SevenModes)
        /\ call'.op = "get_triad_intervals" =>
              (call'.raised = "ValueError" <=>
                 call'.name \notin {"major", "major_7", "minor", "minor_7",
                                    "dominant_7", "diminished"})
        /\ call'.raised # "" => Tables' = Tables]_vars

=============================================================================
